---- MODULE Spec2Model ----
(***************************************************************************)
(* Model of airflow/dags/kernel_gate.py: the normalisation of legacy ISIS  *)
(* records into Kernel payloads, the bundle identity (issue_id), the issue *)
(* filter, the create-or-patch protocol (register_or_update) and the two   *)
(* batch drivers (process_journals, process_issues).                       *)
(*                                                                         *)
(* Python strings are sequences of one-character strings; None is the      *)
(* sentinel NoneStr. Payload values are records [t, s, l]: a str carries   *)
(* its characters in s (a text that is never inspected is one token), a    *)
(* list its elements in l, each a sequence of tokens, and a dict its keys  *)
(* and values in s, flattened as k1, v1, k2, v2.                           *)
(***************************************************************************)
EXTENDS Integers, Sequences, FiniteSets, TLC

VARIABLES
    idArgs,     \* issue_id: the arguments of the call
    idResult,   \* issue_id: the returned string, Unset before the call
    issue,      \* issue_as_kernel: the xylose Issue given
    issueOut,   \* issue_as_kernel: the payload returned, or the exception
    task,       \* batch: the task run, work_on_journals or work_on_issues
    records,    \* batch: the records pulled from xcom, in order
    work,       \* batch: the payloads the loop iterates (journals_as_kernel)
    pos,        \* batch: the index of the loop in work
    state,      \* batch: queued, running, success, or failed by an exception
    store,      \* batch: the Kernel, url -> entity
    sent,       \* batch: every request sent, in order
    remote,     \* register_or_update: the Kernel's entity at entity_url + _id
    recPayload, \* register_or_update: the payload of every call
    calls,      \* register_or_update: one record per finished call
    dirty       \* a third party changed the entity since the last call

idVars == <<idArgs, idResult>>
normVars == <<issue, issueOut>>
recVars == <<remote, recPayload, calls, dirty>>
batchVars == <<task, records, work, pos, state, store, sent>>
vars ==
    <<idArgs, idResult, issue, issueOut, remote, recPayload, calls, dirty,
      task, records, work, pos, state, store, sent>>

----------------------------------------------------------------------------
(* Bounds *)

\* longest volume / number / supplement string enumerated for issue_id
MaxLen == 2

\* calls of register_or_update in a row on one id
MaxCalls == 2

\* records in the list a batch task pulls
MaxBatch == 3

----------------------------------------------------------------------------
(* Python strings *)

NoneStr == <<"None">>
Unset == <<"unset">>

DigitChars == {"0", "1", "2", "3", "4", "5", "6", "7", "8", "9"}

\* characters the enumerated component strings are built from
Alphabet == {"0", "1", "2", "a"}

DigitVal(c) ==
    CASE c = "0" -> 0 [] c = "1" -> 1 [] c = "2" -> 2 [] c = "3" -> 3
      [] c = "4" -> 4 [] c = "5" -> 5 [] c = "6" -> 6 [] c = "7" -> 7
      [] c = "8" -> 8 [] c = "9" -> 9

DigitChar(d) ==
    CASE d = 0 -> "0" [] d = 1 -> "1" [] d = 2 -> "2" [] d = 3 -> "3"
      [] d = 4 -> "4" [] d = 5 -> "5" [] d = 6 -> "6" [] d = 7 -> "7"
      [] d = 8 -> "8" [] d = 9 -> "9"

\* bool(value) of a str-or-None
StrTruthy(value) == value # NoneStr /\ value # <<>>

\* str.isdigit(): non-empty and every character a digit
IsDigit(value) ==
    /\ Len(value) > 0
    /\ \A i \in 1..Len(value) : value[i] \in DigitChars

\* int(value) of an all-digit string
RECURSIVE PyInt(_)
PyInt(value) ==
    IF Len(value) = 0 THEN 0
    ELSE 10 * PyInt(SubSeq(value, 1, Len(value) - 1)) + DigitVal(value[Len(value)])

\* str(n) of a non-negative int
RECURSIVE PyStr(_)
PyStr(n) ==
    IF n < 10 THEN <<DigitChar(n)>>
    ELSE PyStr(n \div 10) \o <<DigitChar(n % 10)>>

\* sep.join(parts)
RECURSIVE PyJoin(_, _)
PyJoin(sep, parts) ==
    IF Len(parts) = 0 THEN <<>>
    ELSE IF Len(parts) = 1 THEN parts[1]
    ELSE parts[1] \o sep \o PyJoin(sep, Tail(parts))

----------------------------------------------------------------------------
(* issue_id *)

\* one (label, prefix) step of the second loop: the component appended, if any
IdComponentNoNormalize(prefix, value) ==
    IF StrTruthy(value) THEN <<prefix \o value>> ELSE <<>>

IdComponent(prefix, value) ==
    IF StrTruthy(value)
    THEN <<prefix \o (IF IsDigit(value) THEN PyStr(PyInt(value)) ELSE value)>>
    ELSE <<>>

\* the first loop: issn_id and year, each appended when truthy
IdHead(issn_id, year) ==
    (IF StrTruthy(issn_id) THEN <<issn_id>> ELSE <<>>)
        \o (IF StrTruthy(year) THEN <<year>> ELSE <<>>)

issue_id(issn_id, year, volume, number, supplement) ==
    PyJoin(<<"-">>,
           IdHead(issn_id, year)
               \o IdComponent(<<"v">>, volume)
               \o IdComponent(<<"n">>, number)
               \o IdComponent(<<"s">>, supplement))

----------------------------------------------------------------------------
(* Specification of the bundle identity: one call of issue_id *)

RECURSIVE StringsUpTo(_)
StringsUpTo(n) ==
    IF n = 0 THEN {<<>>}
    ELSE LET shorter == StringsUpTo(n - 1)
         IN  shorter \cup {Append(s, c) : s \in shorter, c \in Alphabet}

OptStrings == {NoneStr} \cup StringsUpTo(MaxLen)

SampleIssn == <<"0", "0", "0", "1", "-", "0", "0", "0", "2">>
SampleYear == <<"2", "0", "1", "9">>

IdleRec ==
    /\ remote = <<>> /\ recPayload = <<>> /\ calls = <<>> /\ dirty = FALSE

IdleNorm == issue = <<>> /\ issueOut = <<>>

IdleBatch ==
    /\ task = "" /\ records = <<>> /\ work = <<>> /\ pos = 0
    /\ state = "" /\ store = <<>> /\ sent = <<>>

IdInit ==
    /\ IdleRec
    /\ IdleNorm
    /\ IdleBatch
    /\ idArgs \in [issn_id : {SampleIssn}, year : {SampleYear, <<"1", "9", "9", "8">>},
                   volume : OptStrings, number : OptStrings,
                   supplement : OptStrings]
    /\ idResult = Unset

CallIssueId ==
    /\ idResult = Unset
    /\ idResult' = issue_id(idArgs.issn_id, idArgs.year, idArgs.volume,
                            idArgs.number, idArgs.supplement)
    /\ UNCHANGED <<idArgs, normVars, recVars, batchVars>>

IdNext == CallIssueId

SpecId == IdInit /\ [][IdNext]_vars

----------------------------------------------------------------------------
(* C6 *)

\* the decimal rendering without leading zeros, by dropping characters
RECURSIVE StripZeros(_)
StripZeros(s) ==
    IF Len(s) > 1 /\ s[1] = "0" THEN StripZeros(Tail(s)) ELSE s

AllDigits(s) == s # <<>> /\ \A i \in 1..Len(s) : s[i] \in DigitChars

Present(s) == s # NoneStr /\ s # <<>>

Rendered(prefix, s) ==
    IF Present(s)
    THEN <<"-">> \o prefix \o (IF AllDigits(s) THEN StripZeros(s) ELSE s)
    ELSE <<>>

ExpectedId(a) ==
    a.issn_id \o <<"-">> \o a.year
        \o Rendered(<<"v">>, a.volume)
        \o Rendered(<<"n">>, a.number)
        \o Rendered(<<"s">>, a.supplement)

\* C6: for a non-empty issn and year, issue_id returns issn-year followed by
\* v<volume>, n<number>, s<supplement> in that order, absent components
\* omitted and all-digit components rendered without leading zeros; so
\* volume "01", number "2" gives the id of volume "1", number "02".
C6_IssueIdFormat ==
    idResult # Unset =>
        /\ idResult = ExpectedId(idArgs)
        /\ (idArgs.volume = <<"0", "1">> /\ idArgs.number = <<"2">>
                /\ idArgs.supplement = NoneStr)
            => idResult = SampleIssn \o <<"-">> \o idArgs.year
                            \o <<"-", "v", "1", "-", "n", "2">>
        /\ (idArgs.volume = <<"1">> /\ idArgs.number = <<"0", "2">>
                /\ idArgs.supplement = NoneStr)
            => idResult = SampleIssn \o <<"-">> \o idArgs.year
                            \o <<"-", "v", "1", "-", "n", "2">>

C6_Witness ==
    /\ idArgs.year = SampleYear
    /\ idArgs.volume = <<"0", "1">>
    /\ idArgs.number = <<"0", "2">>
    /\ idArgs.supplement = <<"0", "0">>
    /\ idResult = SampleIssn \o <<"-">> \o SampleYear
                    \o <<"-", "v", "1", "-", "n", "2", "-", "s", "0">>

----------------------------------------------------------------------------
(* Payload values and the Kernel's documents *)

Str(s) == [t |-> "str", s |-> s, l |-> <<>>]
List(l) == [t |-> "list", s |-> <<>>, l |-> l]
Dict(token) == [t |-> "dict", s |-> token, l |-> <<>>]
NoneVal == [t |-> "none", s |-> <<>>, l |-> <<>>]

\* bool(v): None, "", [] and {} are falsy
Truthy(v) ==
    CASE v.t = "none" -> FALSE
      [] v.t = "str" -> v.s # <<>>
      [] v.t = "list" -> v.l # <<>>
      [] v.t = "dict" -> v.s # <<>>

\* dict.get(k): None for a missing key
Get(m, k) == IF k \in DOMAIN m THEN m[k] ELSE NoneVal

Restrict(m, S) == [k \in S |-> m[k]]

Elements(l) == {l[i] : i \in 1..Len(l)}

\* DeepDiff(a, b, ignore_order=True) of two values is empty: lists compare by
\* their elements whatever the order or repetition, anything else by equality
ValueDiffEmpty(a, b) ==
    IF a.t = "list" /\ b.t = "list" THEN Elements(a.l) = Elements(b.l)
    ELSE a = b

\* DeepDiff(_metadata, payload, ignore_order=True) is non-empty: a key added,
\* a key removed, or a value changed
DeepDiff(_metadata, payload) ==
    \/ DOMAIN _metadata # DOMAIN payload
    \/ \E k \in DOMAIN payload : ~ValueDiffEmpty(_metadata[k], payload[k])

Absent == [exists |-> FALSE, metadata |-> <<>>]
Entity(m) == [exists |-> TRUE, metadata |-> m]

\* the Kernel on PUT: the entity is the body
StorePut(entity, body) == Entity(body)

\* the Kernel on PATCH: the body merged into the entity, key by key
StorePatch(entity, body) ==
    Entity([k \in DOMAIN entity.metadata \cup DOMAIN body |->
                IF k \in DOMAIN body THEN body[k] ELSE entity.metadata[k]])

----------------------------------------------------------------------------
(* register_or_update *)

NOT_FOUND == 404
OK == 200

NoBody == <<>>
Request(method, body) == [method |-> method, body |-> body]

\* what HttpHook.run gives back: a status, or an exception of the transport
Answer(status) == [exc |-> FALSE, status |-> status]
TransportError == [exc |-> TRUE, status |-> 0]

\* the answers of the Kernel to the probe of an entity
ProbeAnswers(entity) ==
    {Answer(IF entity.exists THEN OK ELSE NOT_FOUND), Answer(500), TransportError}

\* the answers to a write: stored, refused with an error status, or no answer
WriteAnswers == {Answer(OK), Answer(500), TransportError}

\* the payload of the PUT: the keys whose value is truthy
CreateBody(payload) ==
    Restrict(payload, {k \in DOMAIN payload : Truthy(payload[k])})

\* the payload compared with the metadata and sent by the PATCH
UpdateBodyUnfiltered(_metadata, payload) == payload

UpdateBodyNoNewValue(_metadata, payload) ==
    Restrict(payload,
             {k \in DOMAIN payload :
                \/ Truthy(Get(_metadata, k))
                \/ Get(_metadata, k) = payload[k]})

UpdateBody(_metadata, payload) ==
    Restrict(payload,
             {k \in DOMAIN payload :
                \/ Truthy(Get(_metadata, k))
                \/ Get(_metadata, k) = payload[k]
                \/ Truthy(payload[k])})

\* the write the probe's status decides: <<>> for none
DecideAlwaysPatch(status, entity, payload) ==
    IF status = NOT_FOUND THEN <<Request("PUT", CreateBody(payload))>>
    ELSE IF status = OK
    THEN <<Request("PATCH", UpdateBody(entity.metadata, payload))>>
    ELSE <<>>

Decide(status, entity, payload) ==
    IF status = NOT_FOUND THEN <<Request("PUT", CreateBody(payload))>>
    ELSE IF status = OK
    THEN IF DeepDiff(entity.metadata, UpdateBody(entity.metadata, payload))
         THEN <<Request("PATCH", UpdateBody(entity.metadata, payload))>>
         ELSE <<>>
    ELSE <<>>

\* the entity after the write was answered
Written(entity, write, answer) ==
    IF answer.exc \/ answer.status # OK THEN entity
    ELSE IF write.method = "PUT" THEN StorePut(entity, write.body)
    ELSE StorePatch(entity, write.body)

\* One call: the requests sent in order, whether an exception left the
\* function, the status of the response returned, and the entity afterwards.
register_or_update(entity, payload, probe, answer) ==
    IF probe.exc
    THEN [requests |-> <<Request("GET", NoBody)>>, raised |-> TRUE,
          status |-> 0, entity |-> entity]
    ELSE LET write == Decide(probe.status, entity, payload)
         IN  IF write = <<>>
             THEN [requests |-> <<Request("GET", NoBody)>>, raised |-> FALSE,
                   status |-> probe.status, entity |-> entity]
             ELSE [requests |-> <<Request("GET", NoBody)>> \o write,
                   raised |-> answer.exc,
                   status |-> answer.status,
                   entity |-> Written(entity, write[1], answer)]

----------------------------------------------------------------------------
(* Specification of the protocol: calls in a row on one id, one payload *)

TitleValues == {Str(<<>>), Str(<<"A">>)}
AcronymValues == {Str(<<>>), Str(<<"X">>)}
CategoryValues ==
    {List(<<>>), List(<<<<"ECOLOGY">>, <<"BIOLOGY">>>>),
     List(<<<<"BIOLOGY">>, <<"ECOLOGY">>>>)}

\* a normalised payload has every key, empty where the source has nothing
Payloads ==
    [title : TitleValues, acronym : AcronymValues,
     subject_categories : CategoryValues]

KeyValues(k) ==
    CASE k = "title" -> TitleValues
      [] k = "acronym" -> AcronymValues
      [] k = "subject_categories" -> CategoryValues

PayloadKeys == {"title", "acronym", "subject_categories"}

\* the documents the Kernel may hold: any subset of the keys, any values
Metadatas ==
    UNION {{m \in [S -> UNION {KeyValues(k) : k \in S}] :
                \A k \in S : m[k] \in KeyValues(k)} : S \in SUBSET PayloadKeys}

IdleId == idArgs = <<>> /\ idResult = <<>>

RecInit ==
    /\ IdleId
    /\ IdleNorm
    /\ IdleBatch
    /\ remote \in {Absent} \cup {Entity(m) : m \in Metadatas}
    /\ recPayload \in Payloads
    /\ calls = <<>>
    /\ dirty = FALSE

\* One whole call of register_or_update(_id, recPayload, entity_url).
RegisterOrUpdate ==
    /\ Len(calls) < MaxCalls
    /\ \E probe \in ProbeAnswers(remote), answer \in WriteAnswers :
          LET r == register_or_update(remote, recPayload, probe, answer)
          IN  \* no write sent: its answer is not drawn
              /\ Len(r.requests) = 1 => answer = Answer(OK)
              /\ remote' = r.entity
              /\ calls' = Append(calls,
                    [probe |-> probe, answer |-> answer,
                     requests |-> r.requests, raised |-> r.raised,
                     status |-> r.status, pre |-> remote, post |-> r.entity,
                     dirty |-> dirty])
    /\ dirty' = FALSE
    /\ UNCHANGED <<recPayload, idVars, normVars, batchVars>>

\* Someone else deletes the entity, or rewrites its title, between two calls.
ThirdParty ==
    /\ Len(calls) < MaxCalls
    /\ ~dirty
    /\ remote.exists
    /\ \/ remote' = Absent
       \/ remote' = Entity([k \in DOMAIN remote.metadata \cup {"title"} |->
                              IF k = "title" THEN Str(<<"B">>)
                              ELSE remote.metadata[k]])
    /\ dirty' = TRUE
    /\ UNCHANGED <<recPayload, calls, idVars, normVars, batchVars>>

RecNext == RegisterOrUpdate \/ ThirdParty

SpecRec == RecInit /\ [][RecNext]_vars

Methods(c) == [i \in 1..Len(c.requests) |-> c.requests[i].method]
Sent(c, method) == \E i \in 1..Len(c.requests) : c.requests[i].method = method

----------------------------------------------------------------------------
(* issue_as_kernel *)

\* A publication date is the sequence of the parts of the string between its
\* "-" signs; None has no part at all.
NoneDate == <<>>

IsLeap(y) == (y % 4 = 0 /\ y % 100 # 0) \/ y % 400 = 0

DaysIn(y, m) ==
    IF m = 2 THEN (IF IsLeap(y) THEN 29 ELSE 28)
    ELSE IF m \in {4, 6, 9, 11} THEN 30 ELSE 31

\* the fields strptime accepts: %Y four digits from year 1, %m and %d one or
\* two digits within the calendar
YearOk(part) == Len(part) = 4 /\ IsDigit(part) /\ PyInt(part) >= 1
MonthOk(part) == Len(part) \in {1, 2} /\ IsDigit(part) /\ PyInt(part) \in 1..12
DayOk(y, m, part) ==
    Len(part) \in {1, 2} /\ IsDigit(part) /\ PyInt(part) \in 1..DaysIn(y, m)

\* datetime.strptime(date, format) succeeds, format having `fields` fields
Strptime(date, fields) ==
    /\ Len(date) = fields
    /\ YearOk(date[1])
    /\ fields >= 2 => MonthOk(date[2])
    /\ fields = 3 => DayOk(PyInt(date[1]), PyInt(date[2]), date[3])

\* parse_date: "%Y-%m-%d", then "%Y-%m", then "%Y"; the last failure is raised
ParseDateRaises(date) ==
    ~Strptime(date, 3) /\ ~Strptime(date, 2) /\ ~Strptime(date, 1)

\* the year of the datetime parse_date returns
ParseDateYear(date) == PyInt(date[1])

\* value-or-default of a str-or-None
OrElse(value, default) == IF StrTruthy(value) THEN value ELSE default

\* issue.type is "supplement": the two are the same object. The literal and
\* an equal string need not be one object; the issue carries the outcome.
IsSupplement(i) == i.type = "supplement" /\ i.typeIsLiteral

SupplementValue(i) ==
    OrElse(i.supplement_volume, OrElse(i.supplement_number, <<"0">>))

\* sorted(set([int(start_month), int(end_month)]))
PublicationSeason(i) ==
    LET a == PyInt(i.start_month)
        b == PyInt(i.end_month)
    IN  IF a = b THEN <<PyStr(a)>>
        ELSE IF a < b THEN <<PyStr(a), PyStr(b)>>
        ELSE <<PyStr(b), PyStr(a)>>

HasSeason(i) == StrTruthy(i.start_month) /\ StrTruthy(i.end_month)

\* an exception leaves issue_as_kernel: int() of a month that is no number,
\* no v35 in the record, or a date no format matches
IssueRaises(i) ==
    \/ HasSeason(i) /\ ~(IsDigit(i.start_month) /\ IsDigit(i.end_month))
    \/ i.v35 = NoneStr
    \/ ParseDateRaises(i.publication_date)

\* the value handed to issue_id as supplement: _payload.get("supplement")
SupplementArg(i) == IF IsSupplement(i) THEN SupplementValue(i) ELSE NoneStr

IssuePayload(i) ==
    LET base ==
            [k \in {"volume", "number", "titles", "publication_season", "_id"} |->
                CASE k = "volume" -> Str(OrElse(i.volume, <<>>))
                  [] k = "number" -> Str(OrElse(i.number, <<>>))
                  [] k = "titles" -> List(i.titles)
                  [] k = "publication_season" ->
                        List(IF HasSeason(i) THEN PublicationSeason(i) ELSE <<>>)
                  [] k = "_id" ->
                        Str(issue_id(i.v35, PyStr(ParseDateYear(i.publication_date)),
                                     i.volume, i.number, SupplementArg(i)))]
    IN  IF IsSupplement(i)
        THEN [k \in DOMAIN base \cup {"supplement"} |->
                IF k = "supplement" THEN Str(SupplementValue(i)) ELSE base[k]]
        ELSE base

issue_as_kernel(i) ==
    IF IssueRaises(i) THEN [raised |-> TRUE, payload |-> <<>>]
    ELSE [raised |-> FALSE, payload |-> IssuePayload(i)]

----------------------------------------------------------------------------
(* Specification of the issue normaliser: one call of issue_as_kernel *)

IssueTypes == {"regular", "special", "supplement", "pressrelease", "ahead"}

Date(y, rest) == <<y>> \o rest
Y2019 == <<"2", "0", "1", "9">>

SampleDates ==
    {Date(Y2019, <<<<"0", "6">>, <<"2", "5">>>>),
     Date(Y2019, <<<<"0", "6">>>>),
     Date(Y2019, <<>>),
     Date(Y2019, <<<<"1", "3">>>>),
     Date(Y2019, <<<<"0", "2">>, <<"3", "0">>>>),
     Date(<<"a", "b", "c", "d">>, <<>>),
     NoneDate}

SampleMonths ==
    {<<NoneStr, NoneStr>>, <<<<"6">>, <<"6">>>>, <<<<"1", "2">>, <<"0", "3">>>>,
     <<<<"3">>, NoneStr>>, <<<<"a">>, <<"6">>>>}

Issues ==
    {i \in [type : IssueTypes, typeIsLiteral : BOOLEAN,
            volume : {NoneStr, <<"0", "1">>},
            number : {NoneStr, <<"2">>, <<"s", "p", "e">>},
            supplement_volume : {NoneStr, <<"1">>, <<"0", "2">>},
            supplement_number : {NoneStr, <<"3">>},
            titles : {<<>>, <<<<"language", "en", "value", "Special issue">>>>},
            start_month : {m[1] : m \in SampleMonths},
            end_month : {m[2] : m \in SampleMonths},
            v35 : {NoneStr, SampleIssn},
            publication_date : SampleDates] :
        /\ <<i.start_month, i.end_month>> \in SampleMonths
        \* only a string equal to the literal can be the literal itself
        /\ i.typeIsLiteral => i.type = "supplement"}

NotCalled == [done |-> FALSE, raised |-> FALSE, payload |-> <<>>]

NormInit ==
    /\ IdleId
    /\ IdleRec
    /\ IdleBatch
    /\ issue \in Issues
    /\ issueOut = NotCalled

IssueAsKernel ==
    /\ ~issueOut.done
    /\ issueOut' = [done |-> TRUE, raised |-> issue_as_kernel(issue).raised,
                    payload |-> issue_as_kernel(issue).payload]
    /\ UNCHANGED <<issue, idVars, recVars, batchVars>>

NormNext == IssueAsKernel

SpecNorm == NormInit /\ [][NormNext]_vars

----------------------------------------------------------------------------
(* journal_as_kernel *)

\* str.upper() of the subject areas the legacy base holds
UpperToken(tok) ==
    CASE tok = "Linguistics, Letters and Arts" -> "LINGUISTICS, LETTERS AND ARTS"
      [] tok = "Health Sciences" -> "HEALTH SCIENCES"
      [] tok = "LINGUISTIC, LITERATURE AND ARTS" -> "LINGUISTIC, LITERATURE AND ARTS"
      [] OTHER -> tok

Upper(text) == [n \in 1..Len(text) |-> UpperToken(text[n])]

SubjectArea(subject_area) ==
    IF Upper(subject_area) = <<"LINGUISTICS, LETTERS AND ARTS">>
    THEN Upper(<<"LINGUISTIC, LITERATURE AND ARTS">>)
    ELSE Upper(subject_area)

MissionItem(pair) == <<"language">> \o pair[1] \o <<"value">> \o pair[2]
SponsorItem(sponsor) == <<"name">> \o sponsor

JournalStatus(status_history) ==
    IF status_history = <<>> THEN <<>>
    ELSE LET _status == status_history[Len(status_history)]
         IN  <<"status">> \o _status[2]
                \o (IF StrTruthy(_status[3]) THEN <<"reason">> \o _status[3]
                    ELSE <<>>)

Named(title) == IF StrTruthy(title) THEN <<"name">> \o title ELSE <<>>

Contact(email, address) ==
    (IF StrTruthy(email) THEN <<"email">> \o email ELSE <<>>)
        \o (IF StrTruthy(address) THEN <<"address">> \o address ELSE <<>>)

JournalKeys ==
    {"_id", "mission", "title", "title_iso", "short_title", "acronym",
     "scielo_issn", "print_issn", "electronic_issn", "status", "subject_areas",
     "sponsors", "subject_categories", "online_submission_url", "next_journal",
     "previous_journal", "contact"}

journal_as_kernel(journal) ==
    [k \in JournalKeys |->
        CASE k = "_id" -> Str(IF StrTruthy(journal.any_issn) THEN journal.any_issn
                              ELSE journal.scielo_issn)
          [] k = "mission" -> List([n \in 1..Len(journal.mission) |->
                                    MissionItem(journal.mission[n])])
          [] k = "title" -> Str(OrElse(journal.title, <<>>))
          [] k = "title_iso" -> Str(OrElse(journal.abbreviated_iso_title, <<>>))
          [] k = "short_title" -> Str(OrElse(journal.abbreviated_title, <<>>))
          [] k = "acronym" -> Str(OrElse(journal.acronym, <<>>))
          [] k = "scielo_issn" -> Str(OrElse(journal.scielo_issn, <<>>))
          [] k = "print_issn" -> Str(OrElse(journal.print_issn, <<>>))
          [] k = "electronic_issn" -> Str(OrElse(journal.electronic_issn, <<>>))
          [] k = "status" -> Dict(JournalStatus(journal.status_history))
          [] k = "subject_areas" -> List([n \in 1..Len(journal.subject_areas) |->
                          SubjectArea(journal.subject_areas[n])])
          [] k = "sponsors" -> List([n \in 1..Len(journal.sponsors) |->
                                     SponsorItem(journal.sponsors[n])])
          [] k = "subject_categories" -> List(journal.wos_subject_areas)
          [] k = "online_submission_url" -> Str(OrElse(journal.submission_url, <<>>))
          [] k = "next_journal" -> Dict(Named(journal.next_title))
          [] k = "previous_journal" -> Dict(Named(journal.previous_title))
          [] k = "contact" ->
                Dict(Contact(journal.editor_email, journal.editor_address))]

----------------------------------------------------------------------------
(* process_journals and process_issues *)

KERNEL_API_JOURNAL_ENDPOINT == "/journals/"
KERNEL_API_BUNDLES_ENDPOINT == "/bundles/"

\* "{}{}".format(entity_url, _id)
Url(entity_url, _id) == <<entity_url>> \o _id

\* journal.pop("_id"): the payload without the key
PopIdKeepsKey(payload) == payload

PopId(payload) == Restrict(payload, DOMAIN payload \ {"_id"})

NotPressRelease(i) == ~(i.type = "pressrelease")
NotAhead(i) == ~(i.type = "ahead")

\* filter_issues: each filter applied in turn to the whole list
filter_issues_first_only(issues) == SelectSeq(issues, NotPressRelease)

filter_issues(issues) == SelectSeq(SelectSeq(issues, NotPressRelease), NotAhead)

\* the list comprehension over the journals: no element raises
JournalsAsKernel(journals) ==
    [n \in 1..Len(journals) |->
        [src |-> journals[n].src, payload |-> journal_as_kernel(journals[n])]]

\* the list comprehension over the filtered issues: one exception ends it
IssuesRaise(issues) == \E n \in 1..Len(issues) : issue_as_kernel(issues[n]).raised

IssuesAsKernel(issues) ==
    [n \in 1..Len(issues) |->
        [src |-> issues[n].src, payload |-> issue_as_kernel(issues[n]).payload]]

\* the requests of one call, as the Kernel saw them
Logged(src, url, requests) ==
    [n \in 1..Len(requests) |->
        [src |-> src, method |-> requests[n].method, url |-> url,
         body |-> requests[n].body]]

\* One iteration of `for ... in ..._as_kernel`: pop the id, call
\* register_or_update; an exception of the call ends the task.
LoopStep(entity_url) ==
    LET item == work[pos]
        _id == item.payload["_id"].s
        payload == PopId(item.payload)
        url == Url(entity_url, _id)
    IN  \E probe \in ProbeAnswers(store[url]), answer \in WriteAnswers :
          LET r == register_or_update(store[url], payload, probe, answer)
          IN  \* no write sent: its answer is not drawn
              /\ Len(r.requests) = 1 => answer = Answer(OK)
              /\ store' = [store EXCEPT ![url] = r.entity]
              /\ sent' = sent \o Logged(item.src, url, r.requests)
              /\ state' = IF r.raised THEN "failed"
                          ELSE IF pos = Len(work) THEN "success" ELSE "running"
              /\ pos' = pos + 1
              /\ UNCHANGED <<task, records, work>>

\* process_journals up to the loop: pull, load, normalise every journal
StartJournals ==
    /\ task = "work_on_journals" /\ state = "queued"
    /\ work' = JournalsAsKernel(records)
    /\ pos' = 1
    /\ state' = IF Len(records) = 0 THEN "success" ELSE "running"
    /\ UNCHANGED <<task, records, store, sent, idVars, normVars, recVars>>

ReconcileJournal ==
    /\ task = "work_on_journals" /\ state = "running"
    /\ LoopStep(KERNEL_API_JOURNAL_ENDPOINT)
    /\ UNCHANGED <<idVars, normVars, recVars>>

\* process_issues up to the loop: pull, load, filter, normalise every issue
StartIssues ==
    /\ task = "work_on_issues" /\ state = "queued"
    /\ LET issues == filter_issues(records)
       IN  IF IssuesRaise(issues)
           THEN work' = <<>> /\ pos' = 0 /\ state' = "failed"
           ELSE /\ work' = IssuesAsKernel(issues)
                /\ pos' = 1
                /\ state' = IF Len(issues) = 0 THEN "success" ELSE "running"
    /\ UNCHANGED <<task, records, store, sent, idVars, normVars, recVars>>

ReconcileIssue ==
    /\ task = "work_on_issues" /\ state = "running"
    /\ LoopStep(KERNEL_API_BUNDLES_ENDPOINT)
    /\ UNCHANGED <<idVars, normVars, recVars>>

----------------------------------------------------------------------------
(* Specification of the batches: one run of either task *)

Text(token) == <<token>>

ExampleJournal ==
    [any_issn |-> SampleIssn, scielo_issn |-> SampleIssn,
     mission |-> <<>>, title |-> Text("Example Journal"),
     abbreviated_iso_title |-> NoneStr, abbreviated_title |-> NoneStr,
     acronym |-> NoneStr, print_issn |-> NoneStr, electronic_issn |-> NoneStr,
     status_history |-> <<>>, subject_areas |-> <<>>, sponsors |-> <<>>,
     wos_subject_areas |-> <<>>, submission_url |-> NoneStr,
     next_title |-> NoneStr, previous_title |-> NoneStr,
     editor_email |-> NoneStr, editor_address |-> NoneStr]

OtherIssn == <<"1", "2", "3", "4", "-", "5", "6", "7", "8">>

FullJournal ==
    [any_issn |-> NoneStr, scielo_issn |-> OtherIssn,
     mission |-> <<<<Text("en"), Text("To publish")>>,
                   <<Text("pt"), Text("Publicar")>>>>,
     title |-> Text("Revista"), abbreviated_iso_title |-> Text("Rev."),
     abbreviated_title |-> Text("Rev"), acronym |-> Text("rev"),
     print_issn |-> OtherIssn, electronic_issn |-> NoneStr,
     status_history |-> <<<<Text("2000"), Text("current"), NoneStr>>,
                          <<Text("2010"), Text("suspended"),
                            Text("suspended-by-editor")>>>>,
     subject_areas |-> <<Text("Linguistics, Letters and Arts"),
                         Text("Health Sciences")>>,
     sponsors |-> <<Text("CNPq")>>,
     wos_subject_areas |-> <<Text("ECOLOGY")>>,
     submission_url |-> Text("http://submit"),
     next_title |-> Text("Nova Revista"), previous_title |-> NoneStr,
     editor_email |-> Text("ed@example.com"), editor_address |-> NoneStr]

JournalSamples == {ExampleJournal, FullJournal}

IssueSample(type, literal, volume, date) ==
    [type |-> type, typeIsLiteral |-> literal, volume |-> volume,
     number |-> <<"2">>, supplement_volume |-> NoneStr,
     supplement_number |-> NoneStr, titles |-> <<>>,
     start_month |-> <<"6">>, end_month |-> <<"6">>,
     v35 |-> SampleIssn, publication_date |-> date]

GoodDate == Date(Y2019, <<<<"0", "6">>>>)
BadDate == Date(<<"a", "b", "c", "d">>, <<>>)

IssueSamples ==
    {IssueSample("regular", FALSE, <<"0", "1">>, GoodDate),
     IssueSample("regular", FALSE, <<"2">>, BadDate),
     IssueSample("pressrelease", FALSE, <<"0", "1">>, GoodDate),
     IssueSample("ahead", FALSE, NoneStr, GoodDate),
     IssueSample("supplement", TRUE, <<"1", "0">>, GoodDate)}

Tasks == {"work_on_journals", "work_on_issues"}

Samples(t) == IF t = "work_on_journals" THEN JournalSamples ELSE IssueSamples

\* the urls a run of the task can address
Urls(t) ==
    IF t = "work_on_journals"
    THEN {Url(KERNEL_API_JOURNAL_ENDPOINT, journal_as_kernel(j)["_id"].s) :
            j \in JournalSamples}
    ELSE {Url(KERNEL_API_BUNDLES_ENDPOINT, issue_as_kernel(i).payload["_id"].s) :
            i \in {x \in IssueSamples : ~issue_as_kernel(x).raised}}

\* an entity some earlier run left in the Kernel
Stale == Entity([title |-> Str(Text("Old title"))])

\* the record with its position in the list
WithSrc(rec, n) ==
    [k \in DOMAIN rec \cup {"src"} |-> IF k = "src" THEN n ELSE rec[k]]

BatchInit ==
    /\ IdleId /\ IdleNorm /\ IdleRec
    /\ task \in Tasks
    /\ \E len \in 0..MaxBatch : \E list \in [1..len -> Samples(task)] :
          records = [n \in 1..len |-> WithSrc(list[n], n)]
    /\ work = <<>>
    /\ pos = 0
    /\ state = "queued"
    /\ store \in [Urls(task) -> {Absent, Stale}]
    /\ sent = <<>>

BatchNext == StartJournals \/ ReconcileJournal \/ StartIssues \/ ReconcileIssue

SpecBatch == BatchInit /\ [][BatchNext]_vars

----------------------------------------------------------------------------
(* C5, C7, C9 *)

Finished == state \in {"success", "failed"}

ProbedRecord(n) ==
    \E m \in 1..Len(sent) : sent[m].src = n /\ sent[m].method = "GET"

Dropped(rec) == rec.type \in {"pressrelease", "ahead"}

\* the record normalises: nothing to decode fails
Normalises(rec) ==
    task = "work_on_journals" \/ (~Dropped(rec) /\ ~IssueRaises(rec))

\* C5: when the task has ended, every record that normalises was probed,
\* whatever happened to the other records of the list.
C5_FailureIsolated ==
    Finished =>
        \A n \in 1..Len(records) : Normalises(records[n]) => ProbedRecord(n)

\* the payload the normaliser gives for a record of the list
Normalised(rec) ==
    IF task = "work_on_journals" THEN journal_as_kernel(rec)
    ELSE issue_as_kernel(rec).payload

EmptyValue(v) == v \in {Str(<<>>), List(<<>>), Dict(<<>>)}

\* C7: the body of every PUT holds exactly the keys of the normalised payload
\* whose value is not empty, each with its value, and never the key _id.
C7_PutBodyNonEmptyKeys ==
    \A m \in 1..Len(sent) :
        sent[m].method = "PUT" =>
            LET p == Normalised(records[sent[m].src])
            IN  /\ "_id" \notin DOMAIN sent[m].body
                /\ DOMAIN sent[m].body =
                      {k \in DOMAIN p \ {"_id"} : ~EmptyValue(p[k])}
                /\ \A k \in DOMAIN sent[m].body : sent[m].body[k] = p[k]

C7_Witness ==
    /\ task = "work_on_journals"
    /\ \E m \in 1..Len(sent) :
          /\ sent[m].method = "PUT"
          /\ sent[m].url = Url(KERNEL_API_JOURNAL_ENDPOINT, SampleIssn)
          /\ sent[m].body = [title |-> Str(Text("Example Journal")),
                             scielo_issn |-> Str(SampleIssn)]

\* the positions of the records the filter keeps, in the order of the list
RECURSIVE KeptFrom(_)
KeptFrom(n) ==
    IF n > Len(records) THEN <<>>
    ELSE (IF Dropped(records[n]) THEN <<>> ELSE <<n>>) \o KeptFrom(n + 1)

Sources(seq) == [n \in 1..Len(seq) |-> seq[n].src]

IsPrefix(a, b) == Len(a) <= Len(b) /\ a = SubSeq(b, 1, Len(a))

\* the positions probed, in the order of their GETs
ProbeOrder == Sources(SelectSeq(sent, LAMBDA r : r.method = "GET"))

\* C9: filter_issues keeps exactly the issues that are neither pressrelease
\* nor ahead, in the order of the list; no request is ever sent for a
\* pressrelease or ahead issue, and the others are probed in list order.
C9_FilterIssues ==
    task = "work_on_issues" =>
        /\ Sources(filter_issues(records)) = KeptFrom(1)
        /\ \A n \in 1..Len(filter_issues(records)) :
              filter_issues(records)[n] = records[KeptFrom(1)[n]]
        /\ \A m \in 1..Len(sent) : ~Dropped(records[sent[m].src])
        /\ state = "running" => Sources(work) = KeptFrom(1)
        /\ IsPrefix(ProbeOrder, KeptFrom(1))
        /\ state = "success" => ProbeOrder = KeptFrom(1)

C9_Witness ==
    /\ task = "work_on_issues"
    /\ state = "success"
    /\ Len(records) = 3
    /\ records[1].type = "pressrelease"
    /\ records[2].type = "supplement"
    /\ records[3].type = "regular"
    /\ ProbeOrder = <<2, 3>>

----------------------------------------------------------------------------
(* C8 *)

\* C8: the payload has the key supplement exactly when the type of the issue
\* equals "supplement"; its value is then the supplement volume, else the
\* supplement number, else "0"; and the id is built with that value, or with
\* no supplement when the key is absent.
C8_SupplementGating ==
    (issueOut.done /\ ~issueOut.raised) =>
        LET p == issueOut.payload
            year == PyStr(PyInt(issue.publication_date[1]))
        IN  /\ "supplement" \in DOMAIN p <=> issue.type = "supplement"
            /\ "supplement" \in DOMAIN p =>
                  /\ p.supplement =
                        Str(IF Present(issue.supplement_volume)
                            THEN issue.supplement_volume
                            ELSE IF Present(issue.supplement_number)
                            THEN issue.supplement_number
                            ELSE <<"0">>)
                  /\ p._id = Str(issue_id(issue.v35, year, issue.volume,
                                          issue.number, p.supplement.s))
            /\ "supplement" \notin DOMAIN p =>
                  p._id = Str(issue_id(issue.v35, year, issue.volume,
                                       issue.number, NoneStr))

----------------------------------------------------------------------------
(* C1, C2, C3, C4, C10 *)

Probed(c, status) == ~c.probe.exc /\ c.probe.status = status

NoWrite(c) == ~Sent(c, "PUT") /\ ~Sent(c, "PATCH")

\* the metadata already says what the payload says: every key of the metadata
\* is a key of the payload with the same value (lists up to order), and the
\* payload's other keys are empty
SameDocument(_metadata, payload) ==
    /\ DOMAIN _metadata \subseteq DOMAIN payload
    /\ \A k \in DOMAIN payload :
          IF k \in DOMAIN _metadata
          THEN \/ _metadata[k] = payload[k]
               \/ /\ _metadata[k].t = "list" /\ payload[k].t = "list"
                  /\ Elements(_metadata[k].l) = Elements(payload[k].l)
          ELSE ~Truthy(payload[k])

\* C1: on an id the Kernel does not have, the first call sends exactly one
\* PUT; when the Kernel stored its body and nobody touched the entity, the
\* next call with the same payload sends neither a PUT nor a PATCH.
C1_CreateThenUnchanged ==
    \A i \in 1..Len(calls) :
        Probed(calls[i], NOT_FOUND) =>
            /\ Methods(calls[i]) = <<"GET", "PUT">>
            /\ (/\ i < Len(calls)
                /\ calls[i].answer = Answer(OK)
                /\ ~calls[i + 1].dirty) => NoWrite(calls[i + 1])

C1_Witness ==
    /\ Len(calls) = 2
    /\ recPayload.title = Str(<<>>)
    /\ recPayload.acronym = Str(<<"X">>)
    /\ Probed(calls[1], NOT_FOUND)
    /\ calls[1].answer = Answer(OK)
    /\ ~calls[2].dirty
    /\ Probed(calls[2], OK)
    /\ Methods(calls[2]) = <<"GET">>

\* C2 as stated: when the entity exists, two calls in a row that nobody
\* interferes with send no PUT and no PATCH at all.
C2_ExistingNeverWritten ==
    \A i \in 1..Len(calls) :
        (Probed(calls[i], OK) /\ (i < Len(calls) => ~calls[i + 1].dirty)) =>
            /\ NoWrite(calls[i])
            /\ i < Len(calls) => NoWrite(calls[i + 1])

\* C2 as amended: when the entity exists, neither of two calls in a row that
\* nobody interferes with sends a PUT; the first sends a PATCH exactly when
\* the metadata and the payload differ, and when it sends none the second
\* sends none either.
C2_ExistingUnchangedOrPatched ==
    \A i \in 1..Len(calls) :
        Probed(calls[i], OK) =>
            /\ ~Sent(calls[i], "PUT")
            /\ Sent(calls[i], "PATCH")
                  <=> ~SameDocument(calls[i].pre.metadata, recPayload)
            /\ (i < Len(calls) /\ ~calls[i + 1].dirty) =>
                  /\ ~Sent(calls[i + 1], "PUT")
                  /\ NoWrite(calls[i]) => NoWrite(calls[i + 1])

C2_Witness ==
    /\ Len(calls) = 2
    /\ Probed(calls[1], OK) /\ Probed(calls[2], OK)
    /\ ~calls[1].dirty /\ ~calls[2].dirty
    /\ calls[1].pre.metadata = [title |-> Str(<<"A">>)]
    /\ recPayload.acronym = Str(<<"X">>)
    /\ Methods(calls[1]) = <<"GET", "PATCH">>
    /\ calls[1].answer = Answer(OK)
    /\ Methods(calls[2]) = <<"GET">>

\* C3: when the metadata holds a non-empty value at a key where the payload
\* is empty, and every other key is equal, no PATCH is sent and the value
\* at that key is the same after the call.
C3_EmptyNeverErases ==
    \A i \in 1..Len(calls) : \A k \in PayloadKeys :
        (/\ Probed(calls[i], OK)
         /\ DOMAIN calls[i].pre.metadata = PayloadKeys
         /\ Truthy(calls[i].pre.metadata[k])
         /\ ~Truthy(recPayload[k])
         /\ \A j \in PayloadKeys \ {k} :
                calls[i].pre.metadata[j] = recPayload[j]) =>
            /\ ~Sent(calls[i], "PATCH")
            /\ calls[i].post = calls[i].pre

\* C4: a probe answered with a status other than 200 and 404 is followed by
\* no write, and the call ends in a failure the caller receives.
C4_OtherStatusFails ==
    \A i \in 1..Len(calls) :
        (~calls[i].probe.exc /\ calls[i].probe.status \notin {OK, NOT_FOUND}) =>
            /\ NoWrite(calls[i])
            /\ calls[i].raised

\* C10: a call sends one GET first and then at most one write; the write is
\* a PUT exactly when the probe said 404, a PATCH exactly when the probe said
\* 200 and the metadata and the payload differ; nothing else is ever sent.
C10_ProbeDecidesWrite ==
    \A i \in 1..Len(calls) :
        LET c == calls[i]
        IN  /\ Len(c.requests) \in {1, 2}
            /\ c.requests[1].method = "GET"
            /\ \A j \in 2..Len(c.requests) :
                  c.requests[j].method \in {"PUT", "PATCH"}
            /\ Sent(c, "PUT") <=> Probed(c, NOT_FOUND)
            /\ Sent(c, "PATCH")
                  <=> (Probed(c, OK) /\ ~SameDocument(c.pre.metadata, recPayload))

C10_Witness ==
    /\ Len(calls) = 2
    /\ Methods(calls[1]) = <<"GET", "PATCH">>
    /\ calls[1].pre.metadata = [subject_categories |-> List(<<<<"ECOLOGY">>, <<"BIOLOGY">>>>)]
    /\ recPayload = [title |-> Str(<<"A">>), acronym |-> Str(<<>>),
                     subject_categories |-> List(<<<<"BIOLOGY">>, <<"ECOLOGY">>>>)]
    /\ calls[2].pre.metadata = [title |-> Str(<<"A">>),
                                subject_categories |-> List(<<<<"BIOLOGY">>, <<"ECOLOGY">>>>)]
    /\ Methods(calls[2]) = <<"GET">>
    /\ Probed(calls[2], OK)

====
